---- MODULE Spec2Model ----
(***************************************************************************)
(* Model of the game session of stinkyfingers/differencebetween            *)
(* (package game, src/handlers/status.go lines 13-317).                    *)
(*                                                                         *)
(* A Card is an opaque string in the source; here a card is a positive     *)
(* integer and 0 is the zero value "" of an unfilled slot.  Go slices are  *)
(* sequences, Go maps are functions whose DOMAIN is the key set.  Every    *)
(* rand.Intn call is a nondeterministic choice of the index.               *)
(*                                                                         *)
(* handSize is 6 in the source (status.go:84).  The model is parametric in *)
(* it and is checked with a reduced hand, which keeps the number of        *)
(* possible deals finite and small.                                        *)
(*                                                                         *)
(* A call that panics (an index out of range) unwinds to its caller: the   *)
(* model records the panic in ret and keeps what the call had written      *)
(* before it.  A player joins with a name and no cards, as the tests       *)
(* build players.  The punchline catalog holds pairwise distinct cards;    *)
(* setup sequences may repeat a card.                                      *)
(***************************************************************************)
EXTENDS Integers, Sequences, FiniteSets, TLC

VARIABLES
    Players,          \* g.Players: sequence of [Name, Punchlines]
    Punchlines,       \* g.Punchlines: the shared pool
    Rounds,           \* g.Rounds: sequence of [Setup, Plays, Votes]
    RoundsRemaining,  \* g.RoundsRemaining
    CurrentAction,    \* g.CurrentAction
    setups,           \* the setup sequence handed to createRounds
    op,               \* the call that produced this state
    ret,              \* what the call returned to its caller
    dealErr,          \* what the dealPunchlines call inside it returned
    games,            \* the registry: id -> what findID reads of the session
    now,              \* time.Now(), in hours
    calls             \* the calls in progress on the session, one per caller

vars == <<Players, Punchlines, Rounds, RoundsRemaining, CurrentAction,
          setups, op, ret, dealErr, games, now, calls>>

\* What the methods of one Game neither read nor write
outside == <<games, now, calls>>

game == <<Players, Punchlines, Rounds, RoundsRemaining, CurrentAction>>

----------------------------------------------------------------------------
(* Bounds of the model *)

handSize == 2
NumCards == 5
MaxPlayers == 2
MaxRounds == 2
MaxSetups == 4
SetupKinds == 4

(* Program constants *)

PLAY == "play"
VOTE == "vote"
ErrTooFewSetups == "not enough setup cards"
ErrTooFewPunchlines == "not enough punchline cards"
ErrPlayerExists == "player name already exists"

(* Outcomes of a call that are not error values *)
NoError == "nil"
Returned == "returned"
Panic == "panic: index out of range"
NotCalled == "not called"

AllNames == <<"al", "bob", "cy", "dee", "eve">>
Names == {AllNames[i] : i \in 1..MaxPlayers}

----------------------------------------------------------------------------
(* Go values *)

EmptyMap == [k \in {} |-> 0]

MapPut(m, k, v) == [x \in (DOMAIN m) \cup {k} |-> IF x = k THEN v ELSE m[x]]

MapLen(m) == Cardinality(DOMAIN m)

Range(s) == {s[i] : i \in DOMAIN s}

\* SwapRemove without the shrink: the drawn card stays in the pool
SwapRemoveKeepsCard(s, index) == [s EXCEPT ![index] = s[Len(s)]]

\* s[index] = s[len(s)-1]; s = s[:len(s)-1]  (status.go:309-310)
SwapRemove(s, index) ==
    SubSeq([s EXCEPT ![index] = s[Len(s)]], 1, Len(s) - 1)

Player(name) == [Name |-> name, Punchlines |-> <<>>]

\* No session registered, no call in progress: the part of the state that
\* the specifications of a single Game leave aside
Unregistered ==
    /\ games = EmptyMap
    /\ now = 0
    /\ calls = EmptyMap

----------------------------------------------------------------------------
(* createRounds, status.go:166-186 *)

\* DrawIndices without the setupsMap test: an index may be drawn again
DrawIndicesRepeating(n, k) == [1..k -> 1..n]

\* The values of index over the iterations that fill a slot: the loop draws
\* rand.Intn(len(setups)) and repeats the iteration when setupsMap already
\* holds the index, so the accepted indices are pairwise different.
DrawIndices(n, k) ==
    {ix \in [1..k -> 1..n] : \A i, j \in 1..k : i # j => ix[i] # ix[j]}

\* g.Rounds[i/2].Setup[i%2] = setups[index], for i = 0 .. setupsNeeded-1
BuildRounds(cards, ix, r) ==
    [k \in 1..r |-> [Setup |-> <<cards[ix[2 * k - 1]], cards[ix[2 * k]]>>,
                     Plays |-> EmptyMap,
                     Votes |-> EmptyMap]]

\* createRounds refusing a sequence of exactly setupsNeeded cards
createRoundsOffByOne(r, cards, rounds) ==
    LET setupsNeeded == r * 2 IN
    IF setupsNeeded >= Len(cards)
    THEN {[err |-> ErrTooFewSetups, Rounds |-> rounds]}
    ELSE {[err |-> NoError, Rounds |-> BuildRounds(cards, ix, r)] :
            ix \in DrawIndices(Len(cards), setupsNeeded)}

\* The outcomes of g.createRounds(cards) with g.RoundsRemaining = r >= 0;
\* rounds is g.Rounds before the call, kept when the call fails.
createRounds(r, cards, rounds) ==
    LET setupsNeeded == r * 2 IN
    IF setupsNeeded > Len(cards)
    THEN {[err |-> ErrTooFewSetups, Rounds |-> rounds]}
    ELSE {[err |-> NoError, Rounds |-> BuildRounds(cards, ix, r)] :
            ix \in DrawIndices(Len(cards), setupsNeeded)}

----------------------------------------------------------------------------
(* dealPunchlines, status.go:299-317 *)

\* The inner loop (306-314): n times, move the card at a random index of the
\* pool to the end of the hand, the pool's last card taking its place.
RECURSIVE DrawCards(_, _, _)
DrawCards(hand, pool, n) ==
    IF n <= 0
    THEN {<<hand, pool>>}
    ELSE UNION {DrawCards(Append(hand, pool[index]), SwapRemove(pool, index), n - 1) :
                  index \in 1..Len(pool)}

\* CardsNeeded one short of the hand size
CardsNeededOneLess(hand) == handSize - Len(hand) - 1

\* cardsNeeded := handSize - len(g.Players[playerIndex].Punchlines)
CardsNeeded(hand) == handSize - Len(hand)

\* DealFrom that hands a player who needs more than the pool holds what is
\* left of the pool before it reports the error
RECURSIVE DealFromPartial(_, _, _)
DealFromPartial(players, pool, playerIndex) ==
    IF playerIndex > Len(players)
    THEN {[Players |-> players, Punchlines |-> pool, err |-> NoError]}
    ELSE LET cardsNeeded == CardsNeeded(players[playerIndex].Punchlines) IN
         IF cardsNeeded > Len(pool)
         THEN {[Players |-> [players EXCEPT ![playerIndex].Punchlines = hp[1]],
                Punchlines |-> hp[2], err |-> ErrTooFewPunchlines] :
                 hp \in DrawCards(players[playerIndex].Punchlines, pool, Len(pool))}
         ELSE UNION {DealFromPartial([players EXCEPT ![playerIndex].Punchlines = hp[1]],
                                     hp[2], playerIndex + 1) :
                       hp \in DrawCards(players[playerIndex].Punchlines, pool, cardsNeeded)}

\* The outer loop (301-315) from playerIndex on.
RECURSIVE DealFrom(_, _, _)
DealFrom(players, pool, playerIndex) ==
    IF playerIndex > Len(players)
    THEN {[Players |-> players, Punchlines |-> pool, err |-> NoError]}
    ELSE LET cardsNeeded == CardsNeeded(players[playerIndex].Punchlines) IN
         IF cardsNeeded > Len(pool)
         THEN {[Players |-> players, Punchlines |-> pool, err |-> ErrTooFewPunchlines]}
         ELSE UNION {DealFrom([players EXCEPT ![playerIndex].Punchlines = hp[1]],
                              hp[2], playerIndex + 1) :
                       hp \in DrawCards(players[playerIndex].Punchlines, pool, cardsNeeded)}

dealPunchlines(players, pool) == DealFrom(players, pool, 1)

----------------------------------------------------------------------------
(* The removal of the played card, status.go:273-281 *)

\* The inner range loop over one hand.  arr is the backing array of the hand
\* (the range reads it up to the length the hand had when the loop began),
\* n the current length of g.Players[i].Punchlines, j the position read.
\* Indexing the shortened hand at a position past its end panics.
RECURSIVE ScanHand(_, _, _, _)
ScanHand(arr, n, j, card) ==
    IF j > Len(arr)
    THEN [Punchlines |-> SubSeq(arr, 1, n), panic |-> FALSE]
    ELSE IF arr[j] = card
         THEN IF j > n
              THEN [Punchlines |-> SubSeq(arr, 1, n), panic |-> TRUE]
              ELSE ScanHand([arr EXCEPT ![j] = arr[n]], n - 1, j + 1, card)
         ELSE ScanHand(arr, n, j + 1, card)

\* The outer range loop: every player's hand is scanned, whoever played.
RECURSIVE RemoveFrom(_, _, _)
RemoveFrom(players, i, card) ==
    IF i > Len(players)
    THEN [Players |-> players, panic |-> FALSE]
    ELSE LET h == ScanHand(players[i].Punchlines, Len(players[i].Punchlines), 1, card)
             ps == [players EXCEPT ![i].Punchlines = h.Punchlines]
         IN  IF h.panic THEN [Players |-> ps, panic |-> TRUE]
             ELSE RemoveFrom(ps, i + 1, card)

\* RemovePlayed that leaves the played card in the hand
RemovePlayedNothing(players, card) == [Players |-> players, panic |-> FALSE]

RemovePlayed(players, card) == RemoveFrom(players, 1, card)

----------------------------------------------------------------------------
(* The session *)

\* getPunchlines: the punchline catalog, pairwise distinct cards
Catalog == [i \in 1..NumCards |-> i]

\* getSetups: the setup catalogs a session is created over: one of pairwise
\* distinct cards and one that repeats a card
SessionSetups == {<<1, 2>>, [i \in 1..(2 * MaxRounds) |-> 1]}

Creator == AllNames[1]

\* NewGame, status.go:110-141: the sessions it registers.  A failing
\* createRounds or dealPunchlines makes NewGame return no session.
Init ==
    \E rounds \in 0..MaxRounds, cards \in SessionSetups :
      \E cr \in createRounds(rounds, cards, <<>>) :
        \E d \in dealPunchlines(<<Player(Creator)>>, Catalog) :
          /\ cr.err = NoError
          /\ d.err = NoError
          /\ Players = d.Players
          /\ Punchlines = d.Punchlines
          /\ Rounds = cr.Rounds
          /\ RoundsRemaining = rounds
          /\ CurrentAction = PLAY
          /\ setups = cards
          /\ op = "NewGame"
          /\ ret = NoError
          /\ dealErr = NoError
          /\ Unregistered

\* NameExists that compares with the first player only
NameExistsFirstOnly(players, name) == Len(players) > 0 /\ players[1].Name = name

\* status.go:254-258
NameExists(players, name) == \E i \in 1..Len(players) : players[i].Name = name

\* AddPlayer, status.go:253-261
AddPlayer(name) ==
    /\ op' = "AddPlayer"
    /\ IF NameExists(Players, name)
       THEN /\ ret' = ErrPlayerExists
            /\ dealErr' = NotCalled
            /\ UNCHANGED <<game, setups>>
       ELSE \E d \in dealPunchlines(Append(Players, Player(name)), Punchlines) :
              /\ Players' = d.Players
              /\ Punchlines' = d.Punchlines
              /\ ret' = d.err
              /\ dealErr' = d.err
              /\ UNCHANGED <<Rounds, RoundsRemaining, CurrentAction, setups>>
    /\ UNCHANGED outside

\* g.Rounds[g.RoundsRemaining-1] is an index expression: it panics unless
\* 0 <= g.RoundsRemaining-1 < len(g.Rounds)
IndexInRange(i, s) == 0 <= i /\ i < Len(s)

\* Complete one entry early
CompleteOneEarly(m, players) == MapLen(m) + 1 = Len(players)

\* status.go:270 and 292
Complete(m, players) == MapLen(m) = Len(players)

\* Play, status.go:263-283.  Play has no result: the error of dealPunchlines
\* is dropped.
Play(playerName, card) ==
    /\ op' = "Play"
    /\ IF ~IndexInRange(RoundsRemaining - 1, Rounds)
       THEN /\ ret' = Panic
            /\ dealErr' = NotCalled
            /\ UNCHANGED <<game, setups>>
       ELSE LET round == [Rounds[RoundsRemaining] EXCEPT
                            !.Plays = MapPut(@, playerName, card)]
                rm == RemovePlayed(Players, card)
            IN  /\ Rounds' = [Rounds EXCEPT ![RoundsRemaining] = round]
                /\ CurrentAction' = IF Complete(round.Plays, Players)
                                    THEN VOTE ELSE CurrentAction
                /\ IF rm.panic
                   THEN /\ Players' = rm.Players
                        /\ ret' = Panic
                        /\ dealErr' = NotCalled
                        /\ UNCHANGED Punchlines
                   ELSE \E d \in dealPunchlines(rm.Players, Punchlines) :
                          /\ Players' = d.Players
                          /\ Punchlines' = d.Punchlines
                          /\ ret' = Returned
                          /\ dealErr' = d.err
                /\ UNCHANGED <<RoundsRemaining, setups>>
    /\ UNCHANGED outside

\* Vote, status.go:285-297
Vote(playerName, card) ==
    /\ op' = "Vote"
    /\ IF ~IndexInRange(RoundsRemaining - 1, Rounds)
       THEN /\ ret' = Panic
            /\ dealErr' = NotCalled
            /\ UNCHANGED <<game, setups>>
       ELSE LET round == [Rounds[RoundsRemaining] EXCEPT
                            !.Votes = MapPut(@, playerName, card)]
            IN  /\ Rounds' = [Rounds EXCEPT ![RoundsRemaining] = round]
                /\ ret' = Returned
                /\ IF Complete(round.Votes, Players)
                   THEN /\ RoundsRemaining' = RoundsRemaining - 1
                        /\ \E d \in dealPunchlines(Players, Punchlines) :
                             /\ Players' = d.Players
                             /\ Punchlines' = d.Punchlines
                             /\ dealErr' = d.err
                        /\ CurrentAction' = PLAY
                   ELSE /\ dealErr' = NotCalled
                        /\ UNCHANGED <<Players, Punchlines, RoundsRemaining,
                                       CurrentAction>>
                /\ UNCHANGED setups
    /\ UNCHANGED outside

\* dealPunchlines called on the session as it stands
DealPunchlines ==
    /\ op' = "dealPunchlines"
    /\ \E d \in dealPunchlines(Players, Punchlines) :
         /\ Players' = d.Players
         /\ Punchlines' = d.Punchlines
         /\ ret' = d.err
         /\ dealErr' = d.err
    /\ UNCHANGED <<Rounds, RoundsRemaining, CurrentAction, setups>>
    /\ UNCHANGED outside

\* The cards the Play calls name and the card the Vote calls name.  Dealing
\* is random, so a card of PlayCards may be in the caller's hand, in another
\* player's hand, in the pool or in no collection at all.
PlayCards == {1, 2}
VoteCards == {1}

Next ==
    \/ \E name \in Names : AddPlayer(name)
    \/ \E name \in Names, card \in PlayCards : Play(name, card)
    \/ \E name \in Names, card \in VoteCards : Vote(name, card)
    \/ DealPunchlines

Spec == Init /\ [][Next]_vars

----------------------------------------------------------------------------
(* createRounds on its own, as TestCreateRounds and TestErrCreateRounds call *)
(* it: a Game that holds only RoundsRemaining, and a setup sequence.         *)

RECURSIVE SeqsUpTo(_, _)
SeqsUpTo(S, n) ==
    IF n = 0 THEN {<<>>}
    ELSE LET shorter == SeqsUpTo(S, n - 1) IN
         shorter \cup {Append(q, x) : q \in {t \in shorter : Len(t) = n - 1}, x \in S}

\* Setup sequences, repeated cards included: getCardsCsv appends every
\* line of the file that is clean enough and removes no duplicate.
SetupCatalogs == SeqsUpTo(1..SetupKinds, MaxSetups)

InitRounds ==
    /\ Players = <<>>
    /\ Punchlines = <<>>
    /\ Rounds = <<>>
    /\ RoundsRemaining \in 0..MaxRounds
    /\ CurrentAction = ""
    /\ setups \in SetupCatalogs
    /\ op = "Game"
    /\ ret = NotCalled
    /\ dealErr = NotCalled
    /\ Unregistered

CreateRounds ==
    /\ op' = "createRounds"
    /\ \E cr \in createRounds(RoundsRemaining, setups, Rounds) :
         /\ Rounds' = cr.Rounds
         /\ ret' = cr.err
    /\ UNCHANGED <<Players, Punchlines, RoundsRemaining, CurrentAction, setups, dealErr>>
    /\ UNCHANGED outside

SpecRounds == InitRounds /\ [][CreateRounds]_vars

----------------------------------------------------------------------------
(* dealPunchlines on its own, as TestDealPunchlines calls it: a Game that    *)
(* holds only players and a pool.                                            *)

RECURSIVE SumTo(_, _)
SumTo(f, n) == IF n = 0 THEN 0 ELSE f[n] + SumTo(f, n - 1)

\* Players with hands of the given sizes and a pool of q cards, the cards
\* taken from the catalog in order, so that no card is held twice.
DealtGame(sizes, q) ==
    LET n == Len(sizes) IN
    [Players |-> [i \in 1..n |->
                    [Name |-> AllNames[i],
                     Punchlines |-> [k \in 1..sizes[i] |-> SumTo(sizes, i - 1) + k]]],
     Punchlines |-> [k \in 1..q |-> SumTo(sizes, n) + k]]

DealtGames ==
    {DealtGame(sizes, q) :
       <<sizes, q>> \in {sq \in SeqsUpTo(0..handSize, MaxPlayers) \X (0..NumCards) :
                           SumTo(sq[1], Len(sq[1])) + sq[2] <= NumCards}}

InitDeal ==
    /\ \E g \in DealtGames :
         /\ Players = g.Players
         /\ Punchlines = g.Punchlines
    /\ Rounds = <<>>
    /\ RoundsRemaining = 0
    /\ CurrentAction = ""
    /\ setups = <<>>
    /\ op = "Game"
    /\ ret = NotCalled
    /\ dealErr = NotCalled
    /\ Unregistered

SpecDeal == InitDeal /\ [][DealPunchlines]_vars

----------------------------------------------------------------------------
(* Quantities the properties are stated in *)

RECURSIVE Hands(_, _)
Hands(players, n) ==
    IF n = 0 THEN <<>> ELSE Hands(players, n - 1) \o players[n].Punchlines

\* Every card in a hand or in the pool, one entry per occurrence
Held(players, pool) == Hands(players, Len(players)) \o pool

TotalHeld == Len(Held(Players, Punchlines))
TotalHeldNext == Len(Held(Players', Punchlines'))

NoRepeat(s) == \A i, j \in 1..Len(s) : i # j => s[i] # s[j]

InSomeHand(card) == \E i \in 1..Len(Players) : card \in Range(Players[i].Punchlines)

\* C1: no punchline card occurs more than once in the hands and the pool
\* taken together, in any state of a session over a catalog of distinct cards.
C1_NoCardHeldTwice == NoRepeat(Catalog) => NoRepeat(Held(Players, Punchlines))

\* Two players hold cards, cards have been played and replaced from the pool.
C1_Witness ==
    /\ op = "Play"
    /\ dealErr = NoError
    /\ Len(Players) = 2
    /\ \A i \in 1..2 : Len(Players[i].Punchlines) = handSize
    /\ TotalHeld < NumCards

\* C2 as stated: Play, Vote and dealPunchlines leave the number of cards in
\* the hands and the pool together as it was.
C2_TotalConserved ==
    [][op' \in {"Play", "Vote", "dealPunchlines"} => TotalHeldNext = TotalHeld]_vars

\* C2 amended: Vote and dealPunchlines leave the number of cards in the
\* hands and the pool together as it was; Play(playerName, card) lowers it
\* by one when card is in some hand and leaves it as it was otherwise.
C2_TotalOnlyLoweredByPlayedCard ==
    [][/\ op' \in {"Vote", "dealPunchlines"} => TotalHeldNext = TotalHeld
       /\ \A name \in Names, card \in PlayCards :
            Play(name, card) =>
              TotalHeldNext = TotalHeld - (IF InSomeHand(card) /\ ret' # Panic THEN 1 ELSE 0)]_vars

\* A played card has left the hands and the pool, and a vote has followed.
C2_Witness ==
    /\ op = "Vote"
    /\ TotalHeld < NumCards
    /\ RoundsRemaining >= 1
    /\ Rounds[RoundsRemaining].Plays # EmptyMap

----------------------------------------------------------------------------
(* Setup cards *)

RECURSIVE SetupCards(_, _)
SetupCards(rounds, n) ==
    IF n = 0 THEN <<>> ELSE SetupCards(rounds, n - 1) \o rounds[n].Setup

AllSetupCards == SetupCards(Rounds, Len(Rounds))

Count(s, x) == Cardinality({i \in 1..Len(s) : s[i] = x})

\* No card is placed in the rounds more often than the setup sequence holds it
PlacedWithoutReplacement ==
    \A x \in Range(AllSetupCards) : Count(AllSetupCards, x) <= Count(setups, x)

SetupsKept ==
    /\ Len(Rounds') = Len(Rounds)
    /\ \A k \in 1..Len(Rounds) : Rounds'[k].Setup = Rounds[k].Setup

RoundsFilled ==
    /\ Len(Rounds) = RoundsRemaining
    /\ \A k \in 1..Len(Rounds) :
         /\ Rounds[k].Setup[1] \in Range(setups)
         /\ Rounds[k].Setup[2] \in Range(setups)
         /\ Rounds[k].Plays = EmptyMap
         /\ Rounds[k].Votes = EmptyMap

EveryCardUsedOnce ==
    \A x \in Range(setups) : Count(AllSetupCards, x) = Count(setups, x)

----------------------------------------------------------------------------
(* dealPunchlines *)

RECURSIVE MissingUpTo(_, _)
MissingUpTo(players, n) ==
    IF n = 0 THEN 0
    ELSE MissingUpTo(players, n - 1) + (handSize - Len(players[n].Punchlines))

\* The cards all players together are missing from the target hand size
Missing(players) == MissingUpTo(players, Len(players))

IsPrefix(s, t) == Len(s) <= Len(t) /\ SubSeq(t, 1, Len(s)) = s

\* Player k needs more cards than the pool holds once the players before
\* k have been served
ShortAt(players, pool, k) ==
    handSize - Len(players[k].Punchlines) > Len(pool) - MissingUpTo(players, k - 1)

\* C5: when the pool holds at least as many cards as all players together
\* are missing from the target hand size, dealPunchlines returns no error,
\* every hand then holds exactly handSize cards and the pool has shrunk by
\* exactly the number of cards dealt.
C5_DealFillsEveryHand ==
    [][(DealPunchlines /\ Len(Punchlines) >= Missing(Players)) =>
         /\ ret' = NoError
         /\ Len(Players') = Len(Players)
         /\ \A i \in 1..Len(Players) :
              /\ Len(Players'[i].Punchlines) = handSize
              /\ IsPrefix(Players[i].Punchlines, Players'[i].Punchlines)
         /\ Len(Punchlines') = Len(Punchlines) - Missing(Players)
         /\ TotalHeldNext = TotalHeld]_vars

\* Two players were dealt cards and the pool still holds some
C5_Witness ==
    /\ op = "dealPunchlines"
    /\ ret = NoError
    /\ Len(Players) = 2
    /\ \A i \in 1..2 : Len(Players[i].Punchlines) = handSize
    /\ \E k \in 1..handSize : Players[1].Punchlines[k] > handSize
    /\ Len(Punchlines) >= 1

\* C6: dealPunchlines returns ErrTooFewPunchlines exactly when it reaches a
\* player who needs more cards than the pool then holds; no card is moved
\* for that player or a later one, the pool keeps the size it had when that
\* player was reached, the players before were brought to handSize and keep
\* their cards, and no hand ends above handSize.
C6_DealStopsWithoutOverDealing ==
    [][DealPunchlines =>
         /\ ret' = ErrTooFewPunchlines <=>
              \E k \in 1..Len(Players) : ShortAt(Players, Punchlines, k)
         /\ ret' = ErrTooFewPunchlines =>
              \E k \in 1..Len(Players) :
                /\ ShortAt(Players, Punchlines, k)
                /\ \A i \in 1..(k - 1) : ~ShortAt(Players, Punchlines, i)
                /\ \A i \in 1..(k - 1) :
                     /\ Len(Players'[i].Punchlines) = handSize
                     /\ IsPrefix(Players[i].Punchlines, Players'[i].Punchlines)
                /\ \A i \in k..Len(Players) : Players'[i] = Players[i]
                /\ Len(Punchlines') = Len(Punchlines) - MissingUpTo(Players, k - 1)
                /\ handSize - Len(Players[k].Punchlines) > Len(Punchlines')
         /\ Len(Players') = Len(Players)
         /\ \A i \in 1..Len(Players) : Len(Players'[i].Punchlines) <= handSize
         /\ TotalHeldNext = TotalHeld]_vars

\* The first player was dealt cards, the second was reached with too small
\* a pool and got none of the cards left
C6_Witness ==
    /\ op = "dealPunchlines"
    /\ ret = ErrTooFewPunchlines
    /\ Len(Players) = 2
    /\ Len(Players[1].Punchlines) = handSize
    /\ \E k \in 1..handSize : Players[1].Punchlines[k] > handSize
    /\ Len(Players[2].Punchlines) < handSize
    /\ Len(Punchlines) >= 1


----------------------------------------------------------------------------
(* Phases *)

PlayerNames(players) == {players[i].Name : i \in 1..Len(players)}

\* The players of the session with an entry in the map
Entered(m, players) == (DOMAIN m) \cap PlayerNames(players)

\* C7: from phase Playing with P players, the phase stays Playing as long
\* as fewer than P distinct players have submitted a play in the current
\* round, and the play that is the P-th distinct player's submission
\* changes the phase to Voting.
C7_VotingOnlyAfterEveryPlayerPlayed ==
    [][\A name \in Names, card \in PlayCards :
         (Play(name, card) /\ CurrentAction = PLAY /\ ret' = Returned) =>
           LET before == Entered(Rounds[RoundsRemaining].Plays, Players)
               after == Entered(Rounds'[RoundsRemaining].Plays, Players)
           IN  /\ Cardinality(after) < Len(Players) => CurrentAction' = PLAY
               /\ (Cardinality(after) = Len(Players) /\ name \notin before)
                    => CurrentAction' = VOTE]_vars

\* C8: in phase Voting with P players, a vote that leaves fewer than P
\* distinct voters in the current round changes neither RoundsRemaining nor
\* the phase; the vote that completes P distinct voters lowers
\* RoundsRemaining by exactly 1 and sets the phase to Playing; and
\* RoundsRemaining changes only by a vote that completes the P voters of
\* the current round, by exactly 1.
C8_RoundEndsWithLastVote ==
    [][/\ \A name \in Names, card \in VoteCards :
            (Vote(name, card) /\ CurrentAction = VOTE /\ ret' = Returned) =>
              LET voters == MapLen(Rounds'[RoundsRemaining].Votes) IN
              /\ voters <= Len(Players)
              /\ voters < Len(Players) =>
                   RoundsRemaining' = RoundsRemaining /\ CurrentAction' = VOTE
              /\ voters = Len(Players) =>
                   RoundsRemaining' = RoundsRemaining - 1 /\ CurrentAction' = PLAY
       /\ RoundsRemaining' # RoundsRemaining =>
            /\ op' = "Vote"
            /\ RoundsRemaining' = RoundsRemaining - 1
            /\ MapLen(Rounds'[RoundsRemaining].Votes) = Len(Players)]_vars

\* Two players: the first vote of a round left the phase at Voting, the
\* second ended the round and a round is left to play
C8_Witness ==
    /\ op = "Vote"
    /\ Len(Players) = 2
    /\ Len(Rounds) = 2
    /\ RoundsRemaining = 1
    /\ CurrentAction = PLAY
    /\ MapLen(Rounds[2].Plays) = 2
    /\ MapLen(Rounds[2].Votes) = 2

\* C9: once the RoundsRemaining of a session with rounds has reached 0,
\* every Play or Vote call is rejected with a GameFinished error and leaves
\* the session as it was.
C9_FinishedGameRejectsCalls ==
    [][\A name \in Names, card \in PlayCards \cup VoteCards :
         ((Play(name, card) \/ Vote(name, card))
            /\ RoundsRemaining = 0 /\ Len(Rounds) > 0) =>
           ret' = "GameFinished" /\ UNCHANGED game]_vars

\* C10: a Play issued during Voting, or a Vote issued during Playing, does
\* not modify the plays or votes of the current round, any hand, the pool,
\* RoundsRemaining or the phase.
C10_CallOutOfPhaseChangesNothing ==
    [][\A name \in Names, card \in PlayCards \cup VoteCards :
         \/ Play(name, card) /\ CurrentAction = VOTE
         \/ Vote(name, card) /\ CurrentAction = PLAY
         => UNCHANGED game]_vars

----------------------------------------------------------------------------
(* The registry: games, findID, NewGame and GetGame, status.go:67-70, 110-164 *)

\* The identifiers rand.Intn draws are 0..NumIDs-1 (99 of them in the
\* source, status.go:155).  The clock counts hours; it moves by TickHours
\* and stops at MaxNow.
NumIDs == 3
TickHours == 6
MaxNow == 42

IDs == 0..(NumIDs - 1)

\* status.go:152
maxAttempts == 100

\* time.Hour * 12, status.go:158
Expiry == 12

\* The zero time.Time, which a Game's Created has when nothing assigns it
ZeroTime == 0

\* The clock when the process starts: later than the zero time by more than
\* the expiry window
Boot == 24

ErrNoGamesAvailable == "no game ids are available"
ErrGameDoesNotExist == "game does not exist"

\* A nil *Game, which findID stores at status.go:159
NilGame == [nil |-> TRUE, ID |-> 0, Created |-> ZeroTime, at |-> 0]

\* A Game literal that sets Created to the time of the call
CreatedNow(t) == t

\* The Created of the Game that NewGame builds: the literal at
\* status.go:125-131 has no Created field, and nothing assigns it later
Created(t) == ZeroTime

\* What the registry holds of the Game NewGame builds at time t.  The field
\* at is the time of registration; the program does not keep it.
Registered(id, t) == [nil |-> FALSE, ID |-> id, Created |-> Created(t), at |-> t]

\* game.Created.Add(time.Hour * 12).After(time.Now()), status.go:158
Reclaimable(g, t) == g.Created + Expiry > t

\* A session registered less than 12 hours ago
Live(gs, id, t) == id \in DOMAIN gs /\ ~gs[id].nil /\ t - gs[id].at < Expiry

\* A session registered more than 12 hours ago
Expired(gs, id, t) == id \in DOMAIN gs /\ ~gs[id].nil /\ t - gs[id].at > Expiry

\* What one attempt of the loop of findID does with the id it draws,
\* status.go:155-161: it returns the id, it panics reading Created of a nil
\* entry, or it goes on to the next attempt (retry)
Attempt(gs, t, id) ==
    IF id \notin DOMAIN gs
    THEN [retry |-> FALSE, id |-> id, err |-> NoError, games |-> gs]
    ELSE IF gs[id].nil
    THEN [retry |-> FALSE, id |-> id, err |-> Panic, games |-> gs]
    ELSE IF Reclaimable(gs[id], t)
    THEN [retry |-> FALSE, id |-> id, err |-> NoError,
          games |-> [gs EXCEPT ![id] = NilGame]]
    ELSE [retry |-> TRUE, id |-> id, err |-> NoError, games |-> gs]

\* findID, status.go:151-164.  Every attempt of the loop draws from the same
\* ids and reads the same registry, so the loop ends with what some attempt
\* returns, or, when maxAttempts attempts in a row draw an id that makes the
\* loop go on, with ErrNoGamesAvailable.
findID(gs, t) ==
    LET attempts == {Attempt(gs, t, id) : id \in IDs}
    IN  (IF maxAttempts > 0
         THEN {[id |-> a.id, err |-> a.err, games |-> a.games] :
                 a \in {x \in attempts : ~x.retry}}
         ELSE {})
        \cup (IF maxAttempts = 0 \/ \E a \in attempts : a.retry
              THEN {[id |-> 0, err |-> ErrNoGamesAvailable, games |-> gs]}
              ELSE {})

\* The process starts: no game is registered, and no session is in hand
InitRegistry ==
    /\ games = EmptyMap
    /\ now = Boot
    /\ calls = EmptyMap
    /\ Players = <<>>
    /\ Punchlines = <<>>
    /\ Rounds = <<>>
    /\ RoundsRemaining = 0
    /\ CurrentAction = PLAY
    /\ setups = <<>>
    /\ op = "init"
    /\ ret = NoError
    /\ dealErr = NotCalled

\* NewGame, status.go:110-141.  The session variables hold the Game that the
\* last successful call returned.
NewGame(rounds, cards) ==
    /\ op' = "NewGame"
    /\ \E f \in findID(games, now) :
         IF f.err # NoError
         THEN /\ ret' = f.err
              /\ dealErr' = NotCalled
              /\ UNCHANGED <<game, setups, games>>
         ELSE \E cr \in createRounds(rounds, cards, <<>>) :
                IF cr.err # NoError
                THEN /\ ret' = cr.err
                     /\ dealErr' = NotCalled
                     /\ games' = f.games
                     /\ UNCHANGED <<game, setups>>
                ELSE \E d \in dealPunchlines(<<Player(Creator)>>, Catalog) :
                       /\ dealErr' = d.err
                       /\ ret' = d.err
                       /\ IF d.err # NoError
                          THEN /\ games' = f.games
                               /\ UNCHANGED <<game, setups>>
                          ELSE /\ Players' = d.Players
                               /\ Punchlines' = d.Punchlines
                               /\ Rounds' = cr.Rounds
                               /\ RoundsRemaining' = rounds
                               /\ CurrentAction' = PLAY
                               /\ setups' = cards
                               /\ games' = MapPut(f.games, f.id, Registered(f.id, now))
    /\ UNCHANGED <<now, calls>>

\* GetGame, status.go:143-149
GetGame(id) ==
    /\ op' = "GetGame"
    /\ ret' = IF id \in DOMAIN games THEN NoError ELSE ErrGameDoesNotExist
    /\ dealErr' = NotCalled
    /\ UNCHANGED <<game, setups, outside>>

\* Time passes between calls
Tick ==
    /\ now + TickHours <= MaxNow
    /\ now' = now + TickHours
    /\ UNCHANGED <<game, setups, op, ret, dealErr, games, calls>>

NextRegistry ==
    \/ \E rounds \in 0..MaxRounds, cards \in SessionSetups : NewGame(rounds, cards)
    \/ \E id \in IDs : GetGame(id)
    \/ Tick

SpecRegistry == InitRegistry /\ [][NextRegistry]_vars

\* C17: findID returns without error only an identifier that is not in the
\* registry or is that of a session registered more than 12 hours ago; no
\* step removes or changes the registry entry of a session registered less
\* than 12 hours ago, and GetGame finds every such session.
C17_LiveSessionsKept ==
    /\ [](\A f \in findID(games, now) :
            f.err = NoError =>
              f.id \notin DOMAIN games \/ Expired(games, f.id, now))
    /\ [][\A id \in IDs :
            Live(games, id, now) =>
              /\ id \in DOMAIN games'
              /\ games'[id] = games[id]
              /\ (GetGame(id) => ret' = NoError)]_vars

\* NewGame has registered a session while one session registered less than
\* 12 hours ago and one registered more than 12 hours ago were in the
\* registry
C17_Witness ==
    /\ op = "NewGame"
    /\ ret = NoError
    /\ \E a, b, c \in DOMAIN games :
         /\ Live(games, a, now) /\ games[a].at < now
         /\ Expired(games, b, now)
         /\ games[c].at = now

----------------------------------------------------------------------------
(* A session with its players joined, each player playing in the play phase
   and voting in the vote phase *)

RECURSIVE Joined(_, _, _)
\* The sessions after AddPlayer has been called for AllNames[k..n], from a
\* session with the given players and pool; status.go:253-261
Joined(d, k, n) ==
    IF k > n \/ d.err # NoError
    THEN {d}
    ELSE UNION {Joined(e, k + 1, n) :
                  e \in dealPunchlines(Append(d.Players, Player(AllNames[k])),
                                       d.Punchlines)}

\* NewGame by the creator with at least one round, then the other players
\* join, all without error
SessionJoined ==
    \E rounds \in 1..MaxRounds, cards \in SessionSetups, n \in 1..MaxPlayers :
      \E cr \in createRounds(rounds, cards, <<>>) :
        \E d0 \in dealPunchlines(<<Player(Creator)>>, Catalog) :
          \E d \in Joined(d0, 2, n) :
            /\ cr.err = NoError
            /\ d.err = NoError
            /\ Players = d.Players
            /\ Punchlines = d.Punchlines
            /\ Rounds = cr.Rounds
            /\ RoundsRemaining = rounds
            /\ CurrentAction = PLAY
            /\ setups = cards
            /\ op = IF n = 1 THEN "NewGame" ELSE "AddPlayer"
            /\ ret = NoError
            /\ dealErr = NoError

InitFair == SessionJoined /\ Unregistered

\* The player submits a play when the phase is PLAY
PlayerPlays(name) ==
    /\ NameExists(Players, name)
    /\ CurrentAction = PLAY
    /\ \E card \in PlayCards : Play(name, card)

\* The player submits a vote when the phase is VOTE
PlayerVotes(name) ==
    /\ NameExists(Players, name)
    /\ CurrentAction = VOTE
    /\ \E card \in VoteCards : Vote(name, card)

NextFair ==
    \/ \E name \in Names : PlayerPlays(name)
    \/ \E name \in Names : PlayerVotes(name)

Fairness ==
    \A name \in Names :
      /\ WF_vars(PlayerPlays(name))
      /\ WF_vars(PlayerVotes(name))

SpecFair == InitFair /\ [][NextFair]_vars /\ Fairness

\* Every player has an entry in the plays and in the votes of round k
RoundPlayedOut(k) ==
    /\ DOMAIN Rounds[k].Plays = PlayerNames(Players)
    /\ DOMAIN Rounds[k].Votes = PlayerNames(Players)

\* C20: with r >= 1 rounds, the players fixed, and every player playing when
\* the phase is PLAY and voting when it is VOTE under weak fairness, the
\* phase alternates PLAY, VOTE, PLAY, ..., RoundsRemaining goes down by one
\* with each return to PLAY and in no other step, never below 0, and it
\* reaches 0, when each of the r rounds holds a play and a vote of every
\* player.
C20_NoStuckPhase ==
    /\ <>[](RoundsRemaining = 0)
    /\ [](RoundsRemaining = 0 => \A k \in 1..Len(Rounds) : RoundPlayedOut(k))
    /\ [][/\ RoundsRemaining' >= 0
          /\ RoundsRemaining' \in {RoundsRemaining, RoundsRemaining - 1}
          /\ (RoundsRemaining' # RoundsRemaining) <=>
               (CurrentAction = VOTE /\ CurrentAction' = PLAY)
          /\ (CurrentAction' # CurrentAction) =>
               \/ /\ CurrentAction = PLAY /\ CurrentAction' = VOTE
                  /\ op' = "Play"
                  /\ DOMAIN Rounds'[RoundsRemaining].Plays = PlayerNames(Players)
               \/ /\ CurrentAction = VOTE /\ CurrentAction' = PLAY
                  /\ op' = "Vote"
                  /\ DOMAIN Rounds'[RoundsRemaining].Votes = PlayerNames(Players)]_vars

\* Two players have played and voted through MaxRounds rounds
C20_Witness ==
    /\ RoundsRemaining = 0
    /\ op = "Vote"
    /\ Len(Rounds) = MaxRounds
    /\ Len(Players) = 2
    /\ \A k \in 1..Len(Rounds) : RoundPlayedOut(k)

----------------------------------------------------------------------------
(* Calls made at the same time on one session.  The methods of Game take no
   lock, so the statements of two calls interleave.  Each caller of Names
   makes one call on a session on which nothing was played yet.  A Play or
   Vote call runs in three steps: Begin copies the round and makes the map
   when the round has none (status.go:264-267, 286-289), Store puts the
   entry and writes the copy back (268-269, 290-291), Finish runs the rest
   (270-282, 292-296).  AddPlayer runs in one step.  These are some of the
   interleavings of the program, not all of them.

   A map is shared by reference.  With one call a caller on a session whose
   rounds have no map yet, a map that a call found in the round it copied was
   made by the other call and stays in that round, so it is read there; a map
   that a call made itself holds its own entry and the entry of a call of the
   same method that found it in the round. *)

Idle == [pc |-> "idle", op |-> "", card |-> 0, idx |-> 0,
         own |-> FALSE, otherNil |-> FALSE, put |-> FALSE, ret |-> NotCalled]

\* The map of the round that the method writes, and the one it only copies
Field(o) == IF o = "Play" THEN "Plays" ELSE "Votes"
Other(o) == IF o = "Play" THEN "Votes" ELSE "Plays"

InitConcurrent ==
    /\ SessionJoined
    /\ games = EmptyMap
    /\ now = 0
    /\ calls = [name \in Names |-> Idle]

\* round := g.Rounds[g.RoundsRemaining-1]; if round.Plays == nil { make },
\* status.go:264-267 and 286-289
Begin(name, o, card) ==
    /\ calls[name].pc = "idle"
    /\ op' = o
    /\ IF ~IndexInRange(RoundsRemaining - 1, Rounds)
       THEN /\ calls' = [calls EXCEPT ![name] =
                           [Idle EXCEPT !.pc = "done", !.op = o, !.card = card,
                                        !.ret = Panic]]
            /\ ret' = Panic
            /\ dealErr' = NotCalled
       ELSE /\ calls' = [calls EXCEPT ![name] =
                           [pc |-> "read", op |-> o, card |-> card,
                            idx |-> RoundsRemaining,
                            own |-> Rounds[RoundsRemaining][Field(o)] = EmptyMap,
                            otherNil |-> Rounds[RoundsRemaining][Other(o)] = EmptyMap,
                            put |-> FALSE, ret |-> NotCalled]]
            /\ UNCHANGED <<ret, dealErr>>
    /\ UNCHANGED <<game, setups, games, now>>

\* round.Plays[playerName] = card; g.Rounds[g.RoundsRemaining-1] = round,
\* status.go:268-269 and 290-291.  The index is evaluated again.
Store(name) ==
    LET c == calls[name]
        f == Field(c.op)
        written == IF c.own
                   THEN Rounds
                   ELSE [Rounds EXCEPT ![c.idx][f] = MapPut(@, name, c.card)]
        mine == IF c.own THEN MapPut(EmptyMap, name, c.card) ELSE written[c.idx][f]
        other == IF c.otherNil THEN EmptyMap ELSE written[c.idx][Other(c.op)]
        round == [Setup |-> Rounds[c.idx].Setup,
                  Plays |-> IF c.op = "Play" THEN mine ELSE other,
                  Votes |-> IF c.op = "Vote" THEN mine ELSE other]
    IN  /\ c.pc = "read"
        /\ op' = c.op
        /\ IF ~IndexInRange(RoundsRemaining - 1, Rounds)
           THEN /\ Rounds' = written
                /\ calls' = [calls EXCEPT ![name].pc = "done", ![name].put = TRUE,
                                      ![name].ret = Panic]
                /\ ret' = Panic
                /\ dealErr' = NotCalled
           ELSE /\ Rounds' = [written EXCEPT ![RoundsRemaining] = round]
                /\ calls' = [calls EXCEPT ![name].pc = "stored", ![name].put = TRUE]
                /\ UNCHANGED <<ret, dealErr>>
        /\ UNCHANGED <<Players, Punchlines, RoundsRemaining, CurrentAction,
                       setups, games, now>>

\* The map that the round copied by the call refers to
LocalMap(name) ==
    LET c == calls[name]
        sharers == {y \in Names \ {name} :
                      calls[y].op = c.op /\ ~calls[y].own /\ calls[y].put}
    IN  IF c.own
        THEN [y \in sharers \cup {name} |-> calls[y].card]
        ELSE Rounds[c.idx][Field(c.op)]

\* The rest of Play, status.go:270-282
FinishPlay(name) ==
    LET c == calls[name]
        rm == RemovePlayed(Players, c.card)
    IN  /\ c.pc = "stored"
        /\ c.op = "Play"
        /\ op' = "Play"
        /\ CurrentAction' = IF Complete(LocalMap(name), Players)
                            THEN VOTE ELSE CurrentAction
        /\ IF rm.panic
           THEN /\ Players' = rm.Players
                /\ ret' = Panic
                /\ dealErr' = NotCalled
                /\ UNCHANGED Punchlines
           ELSE \E d \in dealPunchlines(rm.Players, Punchlines) :
                  /\ Players' = d.Players
                  /\ Punchlines' = d.Punchlines
                  /\ ret' = Returned
                  /\ dealErr' = d.err
        /\ calls' = [calls EXCEPT ![name].pc = "done", ![name].ret = ret']
        /\ UNCHANGED <<Rounds, RoundsRemaining, setups, games, now>>

\* The rest of Vote, status.go:292-296
FinishVote(name) ==
    LET c == calls[name]
    IN  /\ c.pc = "stored"
        /\ c.op = "Vote"
        /\ op' = "Vote"
        /\ calls' = [calls EXCEPT ![name].pc = "done", ![name].ret = Returned]
        /\ ret' = Returned
        /\ IF Complete(LocalMap(name), Players)
           THEN /\ RoundsRemaining' = RoundsRemaining - 1
                /\ \E d \in dealPunchlines(Players, Punchlines) :
                     /\ Players' = d.Players
                     /\ Punchlines' = d.Punchlines
                     /\ dealErr' = d.err
                /\ CurrentAction' = PLAY
           ELSE /\ dealErr' = NotCalled
                /\ UNCHANGED <<Players, Punchlines, RoundsRemaining, CurrentAction>>
        /\ UNCHANGED <<Rounds, setups, games, now>>

\* AddPlayer, status.go:253-261, in one step
Join(name) ==
    /\ calls[name].pc = "idle"
    /\ op' = "AddPlayer"
    /\ IF NameExists(Players, name)
       THEN /\ ret' = ErrPlayerExists
            /\ dealErr' = NotCalled
            /\ UNCHANGED game
       ELSE \E d \in dealPunchlines(Append(Players, Player(name)), Punchlines) :
              /\ Players' = d.Players
              /\ Punchlines' = d.Punchlines
              /\ ret' = d.err
              /\ dealErr' = d.err
              /\ UNCHANGED <<Rounds, RoundsRemaining, CurrentAction>>
    /\ calls' = [calls EXCEPT ![name] =
                       [Idle EXCEPT !.pc = "done", !.op = "AddPlayer", !.ret = ret']]
    /\ UNCHANGED <<setups, games, now>>

NextConcurrent ==
    \/ \E name \in Names, card \in PlayCards : Begin(name, "Play", card)
    \/ \E name \in Names, card \in VoteCards : Begin(name, "Vote", card)
    \/ \E name \in Names : Store(name)
    \/ \E name \in Names : FinishPlay(name)
    \/ \E name \in Names : FinishVote(name)
    \/ \E name \in Names : Join(name)

SpecConcurrent == InitConcurrent /\ [][NextConcurrent]_vars

\* C18: calls made at the same time on a session end in a state that the
\* same calls made one after another produce: when every call has ended, the
\* entry of every Play and Vote call that returned is in a round of the
\* session, and RoundsRemaining is not below 0.
C18_ConcurrentCallsSerialise ==
    (\A name \in Names : calls[name].pc = "done") =>
      /\ RoundsRemaining >= 0
      /\ \A name \in Names :
           (calls[name].op \in {"Play", "Vote"} /\ calls[name].ret = Returned) =>
             \E k \in 1..Len(Rounds) :
               /\ name \in DOMAIN Rounds[k][Field(calls[name].op)]
               /\ Rounds[k][Field(calls[name].op)][name] = calls[name].card

----------------------------------------------------------------------------
(* Plays, votes and players *)

\* C11 as stated: in every state whose phase is Voting, the number of plays
\* recorded in the current round equals the number of players.
C11_VotingMeansAllPlayed ==
    (CurrentAction = VOTE /\ RoundsRemaining > 0) =>
      Cardinality(DOMAIN Rounds[RoundsRemaining].Plays) = Len(Players)

\* C11 amended: the phase becomes Voting only by a Play call after which the
\* number of plays recorded in the current round equals the number of
\* players.
C11_VotingEnteredWhenAllPlayed ==
    [][(CurrentAction # VOTE /\ CurrentAction' = VOTE) =>
         /\ op' = "Play"
         /\ RoundsRemaining' = RoundsRemaining
         /\ Cardinality(DOMAIN Rounds'[RoundsRemaining].Plays) = Len(Players')]_vars

\* The second of two players has played and the phase is Voting
C11_Witness ==
    /\ op = "Play"
    /\ CurrentAction = VOTE
    /\ Len(Players) = 2
    /\ RoundsRemaining > 0
    /\ DOMAIN Rounds[RoundsRemaining].Plays = PlayerNames(Players)

\* C12: in every round the number of recorded plays and the number of
\* recorded votes are at most the number of players.
C12_EntriesAtMostPlayers ==
    \A k \in 1..Len(Rounds) :
      /\ MapLen(Rounds[k].Plays) <= Len(Players)
      /\ MapLen(Rounds[k].Votes) <= Len(Players)

\* C13: AddPlayer with a name a player of the session has fails with an
\* error and leaves the session as it was; the names of the players of a
\* session are pairwise distinct in every state.
C13_PlayerNamesDistinct ==
    /\ [](\A i, j \in 1..Len(Players) : i # j => Players[i].Name # Players[j].Name)
    /\ [][\A name \in Names :
            (AddPlayer(name) /\ NameExists(Players, name)) =>
              ret' = ErrPlayerExists /\ UNCHANGED game]_vars

\* A second join under a name in use was refused
C13_Witness ==
    /\ op = "AddPlayer"
    /\ ret = ErrPlayerExists
    /\ Len(Players) = 2
    /\ Players[1].Name # Players[2].Name

\* C14: once the RoundsRemaining of a session with rounds has reached 0, no
\* AddPlayer call adds a player or deals cards.
C14_NoJoinAfterFinish ==
    [][\A name \in Names :
         (AddPlayer(name) /\ RoundsRemaining = 0 /\ Len(Rounds) > 0) =>
           UNCHANGED <<Players, Punchlines>>]_vars

Failed(r) == r \in {ErrPlayerExists, ErrTooFewPunchlines, Panic}

\* C15: a call of AddPlayer, Play or Vote that fails leaves the session as
\* it was but for cards that the refill moved from the pool to the hands of
\* the players it served; a join that fails leaves no new player.
C15_FailedCallKeepsSession ==
    [][(op' \in {"AddPlayer", "Play", "Vote"} /\ Failed(ret')) =>
         /\ UNCHANGED <<Rounds, RoundsRemaining, CurrentAction>>
         /\ Len(Players') = Len(Players)
         /\ \A i \in 1..Len(Players) :
              /\ Players'[i].Name = Players[i].Name
              /\ IsPrefix(Players[i].Punchlines, Players'[i].Punchlines)
         /\ TotalHeldNext = TotalHeld]_vars

\* C16: a Play, Vote or AddPlayer call whose refill fails for want of cards
\* returns ErrTooFewPunchlines to its caller.
C16_RefillErrorReported ==
    [][(op' \in {"AddPlayer", "Play", "Vote"} /\ dealErr' = ErrTooFewPunchlines) =>
         ret' = ErrTooFewPunchlines]_vars

\* C19: Play(playerName, card) takes no card from the hand of a player other
\* than the one named playerName.
C19_PlayKeepsOtherHands ==
    [][\A name \in Names, card \in PlayCards :
         Play(name, card) =>
           \A i \in 1..Len(Players) :
             Players[i].Name # name =>
               Range(Players[i].Punchlines) \subseteq Range(Players'[i].Punchlines)]_vars

====
